---- MODULE Spec2Model ----
(***************************************************************************)
(* Model of the vss-tools binary exporter (vssexporters/vss2binary.py) and *)
(* of the enumeration registry it resolves symbols through                 *)
(* (vspec/model/constants.py).                                             *)
(*                                                                         *)
(* Text that the code builds character by character (the allowed-value     *)
(* framing, str() of numbers, labels and the keys derived from them) is    *)
(* modelled as a sequence of code points; tokens that the code only        *)
(* compares or copies (type, data type and unit values, uuids) are TLA+    *)
(* strings.                                                                *)
(***************************************************************************)
EXTENDS Integers, Sequences, FiniteSets, TLC

VARIABLES
    \* ---- tree encoder (vss2binary.py) ----
    tree,          \* the VSSNode tree handed to export(): [n, children, node]
    generate_uuid, \* not config.no_uuid
    pc,            \* position of export(): "start", "running", "done", "raised"
    stack,         \* call stack of export_node: frames [node, i]
    exc,           \* exception in flight or delivered to the caller of export_node
    sink,          \* records written by _cbinary.createBinaryCnode, in order
    calls,         \* nodes for which createBinaryCnode was invoked, in order
    \* ---- allowed-value framing (vss2binary.py) ----
    allowedList,   \* argument of allowedString
    allowedStr,    \* its result
    apc,           \* "call" before allowedString ran, "returned" after
    \* ---- Unit registry (constants.py) ----
    rpc,           \* "unloaded", "loaded", "crashed" (class creation failed)
    classdict,     \* attribute namespace of class Unit: sequence of [key, val]
    reverse_lookup,\* Unit.__reverse_lookup__: insertion-ordered sequence of [key, val]
    values,        \* Unit.__values__
    lastTokens,    \* history: tokens of the configuration ingested last
    lastEntry,     \* history: per token, the entry built from the last ingested
                   \* configuration holding it
    timesIngested, \* history: per token, in how many ingested configurations (0, 1, 2+)
    lastRaised,    \* history: whether the most recent add_config raised
    firstInserted, \* history: tokens in the order they first entered __reverse_lookup__
    addConfigs     \* number of add_config calls made

exportVars == <<tree, generate_uuid, pc, stack, exc, sink, calls>>
allowedVars == <<allowedList, allowedStr, apc>>
registryVars == <<rpc, classdict, reverse_lookup, values, lastTokens, lastEntry,
                  timesIngested, lastRaised, firstInserted, addConfigs>>
vars == <<exportVars, allowedVars, registryVars>>

(***************************************************************************)
(* Bounds of the model.                                                    *)
(***************************************************************************)
MaxNodes == 4      \* largest tree handed to export()
MaxAllowedLen == 255 \* longest allowed literal drawn for allowedString
MaxAddConfigs == 1 \* add_config calls after the initial load
MaxConfigLen == 2  \* entries in one units section
NumTokens == 2     \* distinct unit tokens the configurations draw from

(***************************************************************************)
(* Generic helpers on sequences.                                           *)
(***************************************************************************)
Range(s) == {s[i] : i \in 1..Len(s)}

RECURSIVE Flatten(_)
Flatten(ss) == IF ss = <<>> THEN <<>> ELSE Head(ss) \o Flatten(Tail(ss))

Repeat(c, k) == [i \in 1..k |-> c]

(***************************************************************************)
(* constants.py: VSSConstant and the fixed enumerations.                   *)
(***************************************************************************)
\* Optional[str]: None, or a string.
None == [some |-> FALSE, s |-> ""]
Some(x) == [some |-> TRUE, s |-> x]

VSSConstant(label, value, description, domain) ==
    [label |-> label, value |-> value, description |-> description, domain |-> domain]

\* The names VSSType defines, in class-body order; each member is
\* VSSConstant(name, name).
VSSTypeNames == <<"branch", "rbranch", "attribute", "sensor", "actuator", "element">>

VSSType(name) == VSSConstant(name, name, None, None)

\* The names VSSDataType defines, in class-body order; each member is
\* VSSConstant(name, name).
VSSDataTypeNames ==
    <<"int8", "uint8", "int16", "uint16", "int32", "uint32", "int64", "uint64",
      "boolean", "float", "double", "string", "UNIX Timestamp",
      "int8[]", "uint8[]", "int16[]", "uint16[]", "int32[]", "uint32[]",
      "int64[]", "uint64[]", "boolean[]", "float[]", "double[]", "string[]",
      "UNIX Timestamp[]">>

VSSDataType(name) == VSSConstant(name, name, None, None)

(***************************************************************************)
(* Python values held by the attributes of a node.                         *)
(*   AttrMissing        the object has no such attribute                   *)
(*   AttrStr(s)         a plain str (vsstree.py initialises optional       *)
(*                      attributes to ""); a str has no attribute .value   *)
(*   AttrConst(c)       a VSSConstant, which has .value                    *)
(*   StrVal(s)/IntVal(n) a str given as code points / an int               *)
(*   AllowedUnset       the "" an absent allowed list is initialised to    *)
(*   AllowedList(l)     a list of str, each given as code points           *)
(***************************************************************************)
AttrMissing == [kind |-> "missing"]
AttrStr(s) == [kind |-> "str", s |-> s]
AttrConst(c) == [kind |-> "const", c |-> c]

StrVal(s) == [kind |-> "str", s |-> s]
IntVal(n) == [kind |-> "int", n |-> n]

AllowedUnset == [kind |-> "str"]
AllowedList(l) == [kind |-> "list", l |-> l]


\* The test "if x:" in place of x != "": 0 counts as absent too.
NotEmptyStrTruthy(v) == ~(v.kind = "str" /\ v.s = <<>>) /\ ~(v.kind = "int" /\ v.n = 0)

\* x != "" for a Python value x that is a str or an int.
NotEmptyStr(v) == ~(v.kind = "str" /\ v.s = <<>>)

\* ord('0'), ord('A'), ord('-')
OrdZero == 48
OrdA == 65
OrdMinus == 45

\* str(n) for an int n: decimal digits, most significant first, '-' for n < 0.
RECURSIVE DecDigits(_)
DecDigits(n) ==
    IF n < 10 THEN <<OrdZero + n>>
    ELSE Append(DecDigits(n \div 10), OrdZero + (n % 10))

Str(v) ==
    IF v.kind = "str" THEN v.s
    ELSE IF v.n < 0 THEN <<OrdMinus>> \o DecDigits(0 - v.n)
    ELSE DecDigits(v.n)

\* s.encode('utf-8') for a str given as code points below 0x800.
Utf8Char(cp) ==
    IF cp < 128 THEN <<cp>>
    ELSE <<192 + (cp \div 64), 128 + (cp % 64)>>

Utf8(s) == Flatten([i \in 1..Len(s) |-> Utf8Char(s[i])])

(***************************************************************************)
(* vss2binary.py: the allowed-value framing.                               *)
(***************************************************************************)

\* The framing with lower-case digits for 10..15.
intToHexCharLower(hexInt) ==
    IF hexInt < 10 THEN OrdZero + hexInt
    ELSE hexInt - 10 + 97

intToHexChar(hexInt) ==
    IF hexInt < 10 THEN OrdZero + hexInt
    ELSE hexInt - 10 + OrdA

hexAllowedLen(allowed) ==
    LET hexDigit1 == Len(allowed) \div 16
        hexDigit2 == Len(allowed) - hexDigit1 * 16
    IN  <<intToHexChar(hexDigit1), intToHexChar(hexDigit2)>>

RECURSIVE allowedStringFrom(_, _)
allowedStringFrom(acc, rest) ==
    IF rest = <<>> THEN acc
    ELSE allowedStringFrom(acc \o hexAllowedLen(Head(rest)) \o Head(rest), Tail(rest))

allowedString(aList) == allowedStringFrom(<<>>, aList)

(***************************************************************************)
(* The VSSNode tree handed to the exporter.  Nodes are 1..n, the root is   *)
(* 1; children[i] is node.children of node i (an ordered list) and         *)
(* node[i] holds the attributes export_node reads.                         *)
(***************************************************************************)
RECURSIVE SortByRank(_, _)
SortByRank(S, rank) ==
    IF S = {} THEN <<>>
    ELSE LET first == CHOOSE x \in S : \A y \in S : rank[x] <= rank[y]
         IN  <<first>> \o SortByRank(S \ {first}, rank)

\* Every rooted tree on 1..n whose parents precede their children ...
ParentVectors(n) == {p \in [2..n -> 1..n] : \A i \in 2..n : p[i] < i}
\* ... with every order of every node's children.
Ranks(n) == {r \in [1..n -> 1..n] : \A i, j \in 1..n : i # j => r[i] # r[j]}

ChildrenOf(n, p, r) ==
    [i \in 1..n |-> SortByRank({j \in 2..n : p[j] = i}, r)]

TreeShapes ==
    UNION {{[n |-> n, children |-> ChildrenOf(n, p, r)] :
                p \in ParentVectors(n), r \in Ranks(n)} : n \in 1..MaxNodes}

\* Registry entries a node's unit may be resolved to.
UnitKmh == VSSConstant(<<107, 109, 47, 104>>, "km/h", Some("Speed"), Some("Velocity"))
UnitM == VSSConstant(<<109>>, "m", None, None)

NodeName(i) == <<OrdA + i>>
NodeUuid(i) == <<OrdZero + i>>
Description == <<100>>

\* A branch with nothing optional set, and a sensor with nothing optional set.
BranchNode(i) ==
    [name |-> NodeName(i), type |-> VSSType("branch"), description |-> Description,
     data_type |-> AttrStr(""), min |-> StrVal(<<>>), max |-> StrVal(<<>>),
     allowed |-> AllowedUnset, default_value |-> StrVal(<<>>),
     unit |-> AttrStr(""), uuid |-> NodeUuid(i)]

SensorNode(i) ==
    [BranchNode(i) EXCEPT !.type = VSSType("sensor"),
                          !.data_type = AttrConst(VSSDataType("float")),
                          !.unit = AttrConst(UnitKmh)]

\* Values drawn for min, max and default_value: "", 0, 12, -5, "1.5", "e-acute".
ValueSamples ==
    {StrVal(<<>>), IntVal(0), IntVal(12), IntVal(0 - 5), StrVal(<<49, 46, 53>>),
     StrVal(<<233>>)}

\* Values drawn for unit: attribute missing, "", an unresolved token, entries.
UnitSamples ==
    {AttrMissing, AttrStr(""), AttrStr("km/h"), AttrConst(UnitKmh), AttrConst(UnitM)}

DataTypeSamples ==
    {AttrMissing, AttrStr("")} \cup
    {AttrConst(VSSDataType(VSSDataTypeNames[k])) : k \in DOMAIN VSSDataTypeNames}

AllowedSamples ==
    {AllowedUnset, AllowedList(<<>>), AllowedList(<<<<120>>>>),
     AllowedList(<<<<97, 98>>, <<99>>>>), AllowedList(<<<<>>, Repeat(120, 17)>>)}

\* The attribute combinations drawn for one node: type with data type, the
\* three optional values, the unit, the allowed list.
NodeCases(i) ==
    {[BranchNode(i) EXCEPT !.type = VSSType(VSSTypeNames[k]), !.data_type = d] :
        k \in DOMAIN VSSTypeNames, d \in DataTypeSamples}
    \cup {[SensorNode(i) EXCEPT !.min = a, !.max = b, !.default_value = c] :
        a \in ValueSamples, b \in ValueSamples, c \in ValueSamples}
    \cup {[SensorNode(i) EXCEPT !.unit = u] : u \in UnitSamples}
    \cup {[SensorNode(i) EXCEPT !.allowed = l] : l \in AllowedSamples}

\* The few combinations drawn for the last node of a larger tree.
LastNodeCases(i) ==
    {SensorNode(i),
     [SensorNode(i) EXCEPT !.data_type = AttrStr("")],
     [SensorNode(i) EXCEPT !.unit = AttrStr("km/h"), !.min = IntVal(0)],
     [BranchNode(i) EXCEPT !.data_type = AttrConst(VSSDataType("uint8"))]}

StructuralNode(shape, i) ==
    IF shape.children[i] = <<>> THEN SensorNode(i) ELSE BranchNode(i)

TreesOfShape(shape) ==
    {[n |-> shape.n, children |-> shape.children,
      node |-> [i \in 1..shape.n |->
                   IF i = shape.n /\ i > 1 THEN last ELSE StructuralNode(shape, i)]] :
        last \in LastNodeCases(shape.n)}

Trees ==
    UNION {TreesOfShape(shape) : shape \in TreeShapes}
    \cup
    {[n |-> 2, children |-> <<(<<2>>), <<>>>>,
      node |-> <<BranchNode(1), c>>] : c \in NodeCases(2)}
    \cup
    {[n |-> 1, children |-> <<(<<>>)>>, node |-> <<c>>] : c \in NodeCases(1)}

Root == 1

(***************************************************************************)
(* vss2binary.py: export_node.                                             *)
(***************************************************************************)

\* A record that says only whether the node has children.
ChildrenCountFlag(t, i) == IF Len(t.children[i]) > 0 THEN 1 ELSE 0

\* Line 56: children = len(node.children).
ChildrenCount(t, i) == Len(t.children[i])


\* The test of line 71 without its ATTRIBUTE alternative.
HasDataTypeNoAttribute(nd) ==
    \/ nd.type = VSSType("sensor")
    \/ nd.type = VSSType("actuator")

\* Line 71: node.type is SENSOR, ACTUATOR or ATTRIBUTE.
HasDataType(nd) ==
    \/ nd.type = VSSType("sensor")
    \/ nd.type = VSSType("actuator")
    \/ nd.type = VSSType("attribute")

\* Line 72 raises AttributeError when node.data_type has no .value; nothing
\* catches it.
BodyRaises(nd) == HasDataType(nd) /\ nd.data_type.kind # "const"

\* Lines 58 and 71-72.
NodeDataType(nd) == IF HasDataType(nd) THEN nd.data_type.c.value ELSE ""

\* Lines 59-60, 63 and 76-90: "" unless the attribute differs from "".
OptionalStr(v) == IF NotEmptyStr(v) THEN Str(v) ELSE <<>>

\* Lines 62 and 84-85.
NodeAllowed(a) == IF a.kind # "str" THEN allowedString(a.l) ELSE <<>>

\* Lines 61 and 96-100: the AttributeError of a unit without .value is caught.
NodeUnit(u) == IF u.kind = "const" THEN u.c.value ELSE ""

\* Lines 65 and 113-114.
NodeUuidField(nd, gen) == IF gen THEN nd.uuid ELSE <<>>

\* Line 69: nodevalidate is never assigned after its initialisation.
NodeValidate == <<>>

\* The arguments of createBinaryCnode at line 121 (fname left out).
BinaryCnode(t, i, gen) ==
    LET nd == t.node[i]
    IN  [name |-> Utf8(nd.name),
         type |-> nd.type.value,
         uuid |-> Utf8(NodeUuidField(nd, gen)),
         description |-> Utf8(nd.description),
         data_type |-> NodeDataType(nd),
         min |-> Utf8(OptionalStr(nd.min)),
         max |-> Utf8(OptionalStr(nd.max)),
         unit |-> NodeUnit(nd.unit),
         allowed |-> Utf8(NodeAllowed(nd.allowed)),
         default |-> Utf8(OptionalStr(nd.default_value)),
         validate |-> Utf8(NodeValidate),
         children |-> ChildrenCount(t, i)]

Top == stack[Len(stack)]
Pop == SubSeq(stack, 1, Len(stack) - 1)
NoException == "none"

\* export(): lines 127-138, the call export_node(root, ...).
export ==
    /\ pc = "start"
    /\ pc' = "running"
    /\ stack' = <<[node |-> Root, i |-> 0]>>
    /\ UNCHANGED <<tree, generate_uuid, exc, sink, calls>>
    /\ UNCHANGED <<allowedVars, registryVars>>

\* export_node, lines 47-121, when createBinaryCnode returns.
export_node_body ==
    /\ pc = "running" /\ exc = NoException
    /\ Top.i = 0
    /\ ~BodyRaises(tree.node[Top.node])
    /\ calls' = Append(calls, Top.node)
    /\ sink' = Append(sink, BinaryCnode(tree, Top.node, generate_uuid))
    /\ stack' = Append(Pop, [Top EXCEPT !.i = 1])
    /\ UNCHANGED <<tree, generate_uuid, pc, exc>>
    /\ UNCHANGED <<allowedVars, registryVars>>

\* export_node, lines 47-72, when line 72 raises AttributeError.
export_node_raises ==
    /\ pc = "running" /\ exc = NoException
    /\ Top.i = 0
    /\ BodyRaises(tree.node[Top.node])
    /\ exc' = "AttributeError"
    /\ UNCHANGED <<tree, generate_uuid, pc, stack, sink, calls>>
    /\ UNCHANGED <<allowedVars, registryVars>>


\* The failure of line 121 swallowed: export_node goes on to the children.
createBinaryCnode_raises_swallowed ==
    /\ pc = "running" /\ exc = NoException
    /\ Top.i = 0
    /\ ~BodyRaises(tree.node[Top.node])
    /\ calls' = Append(calls, Top.node)
    /\ stack' = Append(Pop, [Top EXCEPT !.i = 1])
    /\ UNCHANGED <<tree, generate_uuid, pc, exc, sink>>
    /\ UNCHANGED <<allowedVars, registryVars>>

\* export_node, lines 47-121, when the call of line 121 (line 21) raises:
\* the native writer wrote no record.
createBinaryCnode_raises ==
    /\ pc = "running" /\ exc = NoException
    /\ Top.i = 0
    /\ ~BodyRaises(tree.node[Top.node])
    /\ calls' = Append(calls, Top.node)
    /\ exc' = "SinkError"
    /\ UNCHANGED <<tree, generate_uuid, pc, stack, sink>>
    /\ UNCHANGED <<allowedVars, registryVars>>


\* The loop of line 123 running over reversed(node.children).
export_node_loop_reversed ==
    /\ pc = "running" /\ exc = NoException
    /\ Top.i >= 1 /\ Top.i <= Len(tree.children[Top.node])
    /\ stack' = Append(Append(Pop, [Top EXCEPT !.i = Top.i + 1]),
                       [node |-> tree.children[Top.node][
                                     Len(tree.children[Top.node]) + 1 - Top.i],
                        i |-> 0])
    /\ UNCHANGED <<tree, generate_uuid, pc, exc, sink, calls>>
    /\ UNCHANGED <<allowedVars, registryVars>>

\* Lines 123-124: the loop takes the next child and calls export_node on it.
export_node_loop ==
    /\ pc = "running" /\ exc = NoException
    /\ Top.i >= 1 /\ Top.i <= Len(tree.children[Top.node])
    /\ stack' = Append(Append(Pop, [Top EXCEPT !.i = Top.i + 1]),
                       [node |-> tree.children[Top.node][Top.i], i |-> 0])
    /\ UNCHANGED <<tree, generate_uuid, pc, exc, sink, calls>>
    /\ UNCHANGED <<allowedVars, registryVars>>

\* Line 124 exhausted: export_node returns to its caller.
export_node_return ==
    /\ pc = "running" /\ exc = NoException
    /\ Top.i > Len(tree.children[Top.node])
    /\ stack' = Pop
    /\ pc' = IF Len(stack) = 1 THEN "done" ELSE pc
    /\ UNCHANGED <<tree, generate_uuid, exc, sink, calls>>
    /\ UNCHANGED <<allowedVars, registryVars>>

\* An exception leaves a frame of export_node: neither line 121 nor line 124
\* is inside a try, so the frame is dropped and its caller sees the exception.
export_node_propagate ==
    /\ pc = "running" /\ exc # NoException
    /\ stack' = Pop
    /\ pc' = IF Len(stack) = 1 THEN "raised" ELSE pc
    /\ UNCHANGED <<tree, generate_uuid, exc, sink, calls>>
    /\ UNCHANGED <<allowedVars, registryVars>>

\* The state before export() runs; the other components are at rest.
InitExport ==
    /\ tree \in Trees
    /\ generate_uuid \in BOOLEAN
    /\ pc = "start"
    /\ stack = <<>>
    /\ exc = NoException
    /\ sink = <<>>
    /\ calls = <<>>
    /\ allowedList = <<>> /\ allowedStr = <<>> /\ apc = "idle"
    /\ rpc = "idle" /\ classdict = <<>> /\ reverse_lookup = <<>> /\ values = <<>>
    /\ lastTokens = {} /\ lastEntry = <<>> /\ timesIngested = <<>>
    /\ lastRaised = FALSE /\ firstInserted = <<>> /\ addConfigs = 0

NextExport ==
    \/ export
    \/ export_node_body
    \/ export_node_raises
    \/ createBinaryCnode_raises
    \/ export_node_loop
    \/ export_node_return
    \/ export_node_propagate

SpecExport == InitExport /\ [][NextExport]_vars

(***************************************************************************)
(* constants.py: the configurable Unit enumeration.                        *)
(*                                                                         *)
(* A Python dict is a sequence of [key, val] in insertion order.  A        *)
(* configuration is [hasSection, units]: whether the mapping has the       *)
(* 'units' key, and that section as a sequence of [token, info] in the     *)
(* mapping's order, tokens distinct; info is [hasLabel, label,             *)
(* description, domain].                                                   *)
(***************************************************************************)
DictHas(d, k) == \E i \in 1..Len(d) : d[i].key = k
DictGet(d, k) == d[CHOOSE i \in 1..Len(d) : d[i].key = k].val
\* d[k] = v: an existing key keeps its position, a new one goes last.
DictSet(d, k, v) ==
    IF DictHas(d, k)
    THEN [i \in 1..Len(d) |-> IF d[i].key = k THEN [key |-> k, val |-> v] ELSE d[i]]
    ELSE Append(d, [key |-> k, val |-> v])
DictKeys(d) == [i \in 1..Len(d) |-> d[i].key]

Underscore == 95

\* _is_dunder, lines 24-29.
is_dunder(name) ==
    /\ Len(name) > 4
    /\ name[1] = Underscore /\ name[2] = Underscore
    /\ name[Len(name) - 1] = Underscore /\ name[Len(name)] = Underscore
    /\ name[3] # Underscore
    /\ name[Len(name) - 2] # Underscore

\* _is_sunder, lines 32-37.
is_sunder(name) ==
    /\ Len(name) > 2
    /\ name[1] = Underscore /\ name[Len(name)] = Underscore
    /\ name[2] # Underscore
    /\ name[Len(name) - 1] # Underscore

\* NON_ALPHANUMERIC_WORD.sub('', label).upper(): every character that is
\* not a letter or a digit is deleted, the rest is upper-cased.
IsDigit(c) == c >= 48 /\ c <= 57
IsUpper(c) == c >= 65 /\ c <= 90
IsLower(c) == c >= 97 /\ c <= 122
RECURSIVE DeriveKey(_)
DeriveKey(label) ==
    IF label = <<>> THEN <<>>
    ELSE LET c == Head(label)
         IN  (IF IsDigit(c) \/ IsUpper(c) THEN <<c>>
              ELSE IF IsLower(c) THEN <<c - 32>>
              ELSE <<>>) \o DeriveKey(Tail(label))

\* dict_to_constant_config, lines 153-159, for an info that has a label.
dict_to_constant_config(name, info) ==
    [key |-> DeriveKey(info.label),
     val |-> VSSConstant(info.label, name, info.description, info.domain)]

\* iterate_config_members, lines 162-166: the members the generator yields
\* before dict_to_constant_config fails its assert (all of them if none does).
RECURSIVE YieldedMembers(_)
YieldedMembers(units) ==
    IF units = <<>> \/ ~Head(units).info.hasLabel THEN <<>>
    ELSE <<dict_to_constant_config(Head(units).token, Head(units).info)>>
         \o YieldedMembers(Tail(units))

SectionOf(config) == IF config.hasSection THEN config.units ELSE <<>>

\* Whether iterating the configuration raises AssertionError (line 154).
ConfigRaises(config) == \E i \in 1..Len(SectionOf(config)) : ~SectionOf(config)[i].info.hasLabel

\* The class body of Unit as the metaclass receives it: __module__,
\* __qualname__ and __config_name__ (line 170).
DunderModule == <<95, 95, 109, 111, 100, 117, 108, 101, 95, 95>>
DunderQualname == <<95, 95, 113, 117, 97, 108, 110, 97, 109, 101, 95, 95>>
DunderConfigName == <<95, 95, 99, 111, 110, 102, 105, 103, 95, 110, 97, 109, 101, 95, 95>>
UnitClassBody ==
    <<[key |-> DunderModule, val |-> AttrStr("vspec.model.constants")],
      [key |-> DunderQualname, val |-> AttrStr("Unit")],
      [key |-> DunderConfigName, val |-> AttrStr("units")]>>

\* Lines 80-81 and line 87: classdict[k] = v, setattr(cls, k, v).
RECURSIVE SetMembers(_, _)
SetMembers(d, members) ==
    IF members = <<>> THEN d
    ELSE SetMembers(DictSet(d, Head(members).key, AttrConst(Head(members).val)),
                    Tail(members))

\* Lines 59-61: {v.value: v for k, v in classdict.items() if not dunder/sunder}.
RECURSIVE BuildReverseLookup(_, _)
BuildReverseLookup(rl, items) ==
    IF items = <<>> THEN rl
    ELSE IF is_dunder(Head(items).key) \/ is_sunder(Head(items).key)
         THEN BuildReverseLookup(rl, Tail(items))
         ELSE BuildReverseLookup(
                  DictSet(rl, Head(items).val.c.value, Head(items).val.c), Tail(items))


\* setdefault in place of the assignment of line 88: the first entry stays.
UpdateLookupKeepFirst(rl, v) == IF DictHas(rl, v.value) THEN rl ELSE DictSet(rl, v.value, v)

\* Line 88: cls.__reverse_lookup__[v.value] = v.
UpdateLookup(rl, v) == DictSet(rl, v.value, v)

RECURSIVE UpdateLookups(_, _)
UpdateLookups(rl, members) ==
    IF members = <<>> THEN rl
    ELSE UpdateLookups(UpdateLookup(rl, Head(members).val), Tail(members))

\* Lines 63 and 89: tuple(cls.__reverse_lookup__.keys()).
ValuesOf(rl) == DictKeys(rl)

\* from_str, lines 67-68 and 91-92: KeyError for an unknown value.
from_str_raises(value) == ~DictHas(reverse_lookup, value)
from_str(value) == DictGet(reverse_lookup, value)

(***************************************************************************)
(* The configurations drawn for the Unit registry.                         *)
(***************************************************************************)
TokenNames == <<"km/h", "m", "mi", "s">>
Tokens == {TokenNames[i] : i \in 1..NumTokens}

InfoKmh == [hasLabel |-> TRUE, label |-> <<107, 109, 47, 104>>,
            description |-> Some("Speed"), domain |-> Some("Velocity")]
InfoMeter == [hasLabel |-> TRUE, label |-> <<109, 101, 116, 101, 114>>,
              description |-> None, domain |-> Some("Distance")]
\* The label "kmh" differs from "km/h" but derives the same key, KMH.
InfoKmhPlain == [hasLabel |-> TRUE, label |-> <<107, 109, 104>>,
                 description |-> None, domain |-> None]
\* An entry without the mandatory label.
InfoNoLabel == [hasLabel |-> FALSE, label |-> <<>>,
                description |-> Some("Speed"), domain |-> None]

GoodInfos == {InfoKmh, InfoMeter}
AllInfos == GoodInfos \cup {InfoKmhPlain, InfoNoLabel}

Sections(infos) ==
    UNION {{u \in [1..k -> [token : Tokens, info : infos]] :
               \A i, j \in 1..k : i # j => u[i].token # u[j].token} :
           k \in 0..MaxConfigLen}

ConfigsOver(infos) ==
    {[hasSection |-> TRUE, units |-> u] : u \in Sections(infos)}
    \cup {[hasSection |-> FALSE, units |-> <<>>]}

GoodConfigs == ConfigsOver(GoodInfos)
AllConfigs == ConfigsOver(AllInfos)

(***************************************************************************)
(* History of the ingestions, kept for the properties.                     *)
(***************************************************************************)
TokensOf(config) == {SectionOf(config)[i].token : i \in 1..Len(SectionOf(config))}
InfoOf(config, t) ==
    SectionOf(config)[CHOOSE i \in 1..Len(SectionOf(config)) :
                          SectionOf(config)[i].token = t].info

\* The entry the configuration describes for token t.
ConfiguredEntry(config, t) ==
    VSSConstant(InfoOf(config, t).label, t, InfoOf(config, t).description,
                InfoOf(config, t).domain)

Bump(k) == IF k >= 2 THEN 2 ELSE k + 1

NewKeys(rl) == SelectSeq(DictKeys(rl), LAMBDA t : t \notin Range(firstInserted))

RecordIngestion(config, rl) ==
    /\ lastTokens' = TokensOf(config)
    /\ lastEntry' = [t \in Tokens |->
           IF t \in TokensOf(config) THEN ConfiguredEntry(config, t) ELSE lastEntry[t]]
    /\ timesIngested' = [t \in Tokens |->
           IF t \in TokensOf(config) THEN Bump(timesIngested[t]) ELSE timesIngested[t]]
    /\ firstInserted' = firstInserted \o NewKeys(rl)

(***************************************************************************)
(* constants.py: creation of class Unit and add_config.                    *)
(***************************************************************************)
\* VSSEnumMetaConfigurable.__new__, lines 77-83, with VSSEnumMeta.__new__,
\* lines 55-65, on the configuration the file at CONFIG_PATH holds.  A failed
\* assert leaves the module without the class.
Unit_new(config) ==
    /\ rpc = "unloaded"
    /\ IF ConfigRaises(config)
       THEN /\ rpc' = "crashed"
            /\ UNCHANGED <<classdict, reverse_lookup, values, lastTokens, lastEntry,
                           timesIngested, lastRaised, firstInserted, addConfigs>>
       ELSE LET cd == SetMembers(UnitClassBody, YieldedMembers(SectionOf(config)))
                rl == BuildReverseLookup(<<>>, cd)
            IN  /\ rpc' = "loaded"
                /\ classdict' = cd
                /\ reverse_lookup' = rl
                /\ values' = ValuesOf(rl)
                /\ RecordIngestion(config, rl)
                /\ UNCHANGED <<lastRaised, addConfigs>>
    /\ UNCHANGED <<exportVars, allowedVars>>

\* VSSEnumMetaConfigurable.add_config, lines 85-89.  When the generator
\* raises, the members yielded before are already set and line 89 is not
\* reached.
add_config(config) ==
    /\ rpc = "loaded"
    /\ addConfigs < MaxAddConfigs
    /\ addConfigs' = addConfigs + 1
    /\ LET members == YieldedMembers(SectionOf(config))
           rl == UpdateLookups(reverse_lookup, members)
       IN  /\ classdict' = SetMembers(classdict, members)
           /\ reverse_lookup' = rl
           /\ IF ConfigRaises(config)
              THEN /\ lastRaised' = TRUE
                   /\ firstInserted' = firstInserted \o NewKeys(rl)
                   /\ UNCHANGED <<values, lastTokens, lastEntry, timesIngested>>
              ELSE /\ lastRaised' = FALSE
                   /\ values' = ValuesOf(rl)
                   /\ RecordIngestion(config, rl)
    /\ UNCHANGED rpc
    /\ UNCHANGED <<exportVars, allowedVars>>

InitRegistry ==
    /\ rpc = "unloaded"
    /\ classdict = <<>> /\ reverse_lookup = <<>> /\ values = <<>>
    /\ lastTokens = {}
    /\ lastEntry = [t \in Tokens |-> VSSConstant(<<>>, t, None, None)]
    /\ timesIngested = [t \in Tokens |-> 0]
    /\ lastRaised = FALSE /\ firstInserted = <<>> /\ addConfigs = 0
    /\ tree = [n |-> 0] /\ generate_uuid = FALSE /\ pc = "idle" /\ stack = <<>>
    /\ exc = NoException /\ sink = <<>> /\ calls = <<>>
    /\ allowedList = <<>> /\ allowedStr = <<>> /\ apc = "idle"

\* Every configuration has the mandatory labels.
LoadConfig == \E config \in GoodConfigs : Unit_new(config)
AddConfig == \E config \in GoodConfigs : add_config(config)
NextRegistry == LoadConfig \/ AddConfig
SpecRegistry == InitRegistry /\ [][NextRegistry]_vars

\* Configurations may lack a label.
LoadAnyConfig == \E config \in AllConfigs : Unit_new(config)
AddAnyConfig == \E config \in AllConfigs : add_config(config)
NextRegistryAny == LoadAnyConfig \/ AddAnyConfig
SpecRegistryAny == InitRegistry /\ [][NextRegistryAny]_vars

(***************************************************************************)
(* allowedString as an operation of its own.                               *)
(***************************************************************************)
\* Literals of every length up to MaxAllowedLen, and lists of several.
AllowedLiterals == {Repeat(120, k) : k \in 0..MaxAllowedLen}
PairLiterals ==
    {<<>>, <<120>>, <<97, 98>>, <<99>>, Repeat(122, 10), Repeat(122, 16),
     Repeat(122, 175), Repeat(122, MaxAllowedLen)}
AllowedLists ==
    {<<>>} \cup {<<e>> : e \in AllowedLiterals}
    \cup {<<a, b>> : a \in PairLiterals, b \in PairLiterals}
    \cup {<<(<<97>>), <<98, 98>>, <<99, 99, 99>>>>}

InitAllowed ==
    /\ allowedList \in AllowedLists
    /\ allowedStr = <<>>
    /\ apc = "call"
    /\ rpc = "idle" /\ classdict = <<>> /\ reverse_lookup = <<>> /\ values = <<>>
    /\ lastTokens = {} /\ lastEntry = <<>> /\ timesIngested = <<>>
    /\ lastRaised = FALSE /\ firstInserted = <<>> /\ addConfigs = 0
    /\ tree = [n |-> 0] /\ generate_uuid = FALSE /\ pc = "idle" /\ stack = <<>>
    /\ exc = NoException /\ sink = <<>> /\ calls = <<>>

\* allowedStr = allowedString(allowedList), lines 23-28.
allowedString_call ==
    /\ apc = "call"
    /\ allowedStr' = allowedString(allowedList)
    /\ apc' = "returned"
    /\ UNCHANGED <<allowedList, exportVars, registryVars>>

NextAllowed == allowedString_call
SpecAllowed == InitAllowed /\ [][NextAllowed]_vars

(***************************************************************************)
(* Properties.                                                             *)
(***************************************************************************)
IsPrefix(a, b) == Len(a) <= Len(b) /\ a = SubSeq(b, 1, Len(a))

\* The pre-order listing of the subtree at node i.
RECURSIVE PreOrder(_, _)
PreOrder(t, i) ==
    <<i>> \o Flatten([k \in 1..Len(t.children[i]) |-> PreOrder(t, t.children[i][k])])

\* The node names in the order the records were written.
EmittedNames == [k \in 1..Len(sink) |-> sink[k].name]
NamesOf(t, nodes) == [k \in 1..Len(nodes) |-> Utf8(t.node[nodes[k]].name)]

\* C1: export_node on the root writes one record per node, in the
\* pre-order listing of the tree (a node before its descendants, the
\* subtrees of its children one after another in child order): what has
\* been written is at every moment the beginning of that listing, and is
\* the whole listing once export_node has returned.
C1_PreOrderEmission ==
    /\ IsPrefix(EmittedNames, NamesOf(tree, PreOrder(tree, Root)))
    /\ pc = "done" =>
         /\ Len(sink) = tree.n
         /\ EmittedNames = NamesOf(tree, PreOrder(tree, Root))

\* A finished export of the tree 1 -> (3 -> (4), 2): children out of
\* numeric order, a subtree to complete before the next sibling.
C1_Witness ==
    /\ pc = "done"
    /\ tree.n = 4
    /\ tree.children[1] = <<3, 2>> /\ tree.children[3] = <<4>>
    /\ Len(sink) = 4

\* A decoder that reads one record, then as many subtrees as its children
\* field says.  [ok, term, next]: term is [name, kids], next the first
\* position not consumed.
RECURSIVE DecodeSubtree(_, _)
RECURSIVE DecodeChildren(_, _, _)
DecodeSubtree(recs, pos) ==
    IF pos > Len(recs) THEN [ok |-> FALSE, next |-> pos]
    ELSE LET kids == DecodeChildren(recs, pos + 1, recs[pos].children)
         IN  IF kids.ok
             THEN [ok |-> TRUE, term |-> [name |-> recs[pos].name, kids |-> kids.terms],
                   next |-> kids.next]
             ELSE [ok |-> FALSE, next |-> kids.next]
DecodeChildren(recs, pos, k) ==
    IF k <= 0 THEN [ok |-> k = 0, terms |-> <<>>, next |-> pos]
    ELSE LET first == DecodeSubtree(recs, pos)
         IN  IF ~first.ok THEN [ok |-> FALSE, terms |-> <<>>, next |-> first.next]
             ELSE LET rest == DecodeChildren(recs, first.next, k - 1)
                  IN  [ok |-> rest.ok, terms |-> <<first.term>> \o rest.terms,
                       next |-> rest.next]

\* The input tree as a term [name, kids].
RECURSIVE TreeTerm(_, _)
TreeTerm(t, i) ==
    [name |-> Utf8(t.node[i].name),
     kids |-> [k \in 1..Len(t.children[i]) |-> TreeTerm(t, t.children[i][k])]]

\* C2: the tree is recoverable from the record stream alone: decoding the
\* stream of a finished export by reading a record and then `children`
\* subtrees rebuilds the input tree, shape and child order, and consumes
\* every record exactly once; every children field is the number of direct
\* children of its node, a non-negative integer.
C2_ShapeRecoverable ==
    pc = "done" =>
        /\ \A k \in 1..Len(sink) :
               /\ sink[k].children \in Nat
               /\ sink[k].children = Len(tree.children[calls[k]])
        /\ DecodeSubtree(sink, 1).ok
        /\ DecodeSubtree(sink, 1).term = TreeTerm(tree, Root)
        /\ DecodeSubtree(sink, 1).next = Len(sink) + 1

\* A finished export of a tree whose root has two children, the first of
\* them with a child of its own, decoded to the last record.
C2_Witness ==
    /\ pc = "done"
    /\ Len(tree.children[1]) = 2
    /\ Len(tree.children[tree.children[1][1]]) = 1
    /\ Len(tree.children[tree.children[1][2]]) = 0
    /\ DecodeSubtree(sink, 1).next = 5

\* The node whose record is sink[k].
NodeOfRecord(k) == tree.node[calls[k]]

UnitUnset(u) == u.kind = "missing" \/ u = AttrStr("")
UnitUnresolved(u) == u.kind = "str" /\ u.s # ""

\* C3: a record's unit field is empty only when the node's unit is unset,
\* and no record is written for a node whose unit is an unresolved token
\* (the export fails for that node instead).
C3_UnresolvedUnitFails ==
    \A k \in 1..Len(sink) :
        /\ sink[k].unit = "" => UnitUnset(NodeOfRecord(k).unit)
        /\ ~UnitUnresolved(NodeOfRecord(k).unit)

\* C4: once a configuration is ingested, at the creation of the class or
\* by add_config, from_str(t) returns for every token t of its units
\* section the entry built for t: value t and the configured label,
\* description and domain, whatever the labels are.
C4_ResolveReturnsConfigured ==
    rpc = "loaded" =>
        \A t \in lastTokens : ~from_str_raises(t) /\ from_str(t) = lastEntry[t]

\* The two base-16 digits of a length, by table.
HexDigits == <<48, 49, 50, 51, 52, 53, 54, 55, 56, 57, 65, 66, 67, 68, 69, 70>>
Framed(elem) ==
    <<HexDigits[(Len(elem) \div 16) + 1], HexDigits[(Len(elem) % 16) + 1]>> \o elem

\* C5: for a list of strings of lengths 0..255, allowedString returns the
\* concatenation in list order of each element preceded by its length as
\* two base-16 digits (0-9, A-F), most significant first; [] gives "",
\* ["x"] gives "01x" and ["ab", "c"] gives "02ab01c".
C5_AllowedFraming ==
    (apc = "returned" /\ \A i \in 1..Len(allowedList) : Len(allowedList[i]) <= 255) =>
        /\ allowedStr = Flatten([i \in 1..Len(allowedList) |-> Framed(allowedList[i])])
        /\ allowedList = <<>> => allowedStr = <<>>
        /\ allowedList = <<(<<120>>)>> => allowedStr = <<48, 49, 120>>
        /\ allowedList = <<(<<97, 98>>), <<99>>>> =>
               allowedStr = <<48, 50, 97, 98, 48, 49, 99>>

\* allowedString has returned for an element of length 175 ("AF") followed
\* by one of length 16 ("10").
C5_Witness ==
    /\ apc = "returned"
    /\ Len(allowedList) = 2
    /\ Len(allowedList[1]) = 175 /\ Len(allowedList[2]) = 16
    /\ SubSeq(allowedStr, 1, 2) = <<65, 70>>
    /\ SubSeq(allowedStr, 178, 179) = <<49, 48>>

Occurrences(seq, x) == Cardinality({i \in 1..Len(seq) : seq[i] = x})

\* C6: after any sequence of add_config calls, a token that more than one
\* of the ingested configurations holds resolves to the entry of the most
\* recent of them, and occurs exactly once in values(), at the position of
\* its first insertion.
C6_LastWriteWins ==
    rpc = "loaded" =>
        \A t \in Tokens :
            timesIngested[t] >= 2 =>
                /\ ~from_str_raises(t)
                /\ from_str(t) = lastEntry[t]
                /\ Occurrences(values, t) = 1
                /\ \E i \in 1..Len(values) :
                       /\ values[i] = t
                       /\ i <= Len(firstInserted) /\ firstInserted[i] = t

\* "km/h" and "m" were loaded in this order and "km/h" ingested again by
\* add_config with another entry: it is still first in values().
C6_Witness ==
    /\ rpc = "loaded"
    /\ addConfigs = 1
    /\ values = <<"km/h", "m">>
    /\ timesIngested["km/h"] = 2
    /\ lastTokens = {"km/h"}
    /\ from_str("km/h").label = InfoMeter.label

\* C7: when the call that writes a record raises, nothing is written and
\* no call is made afterwards (no child, no later sibling, no retry), each
\* further step only leaves a frame of export_node, and with the last
\* frame left the caller of export_node has the failure.
C7_AbortOnSinkFailure ==
    [][/\ (calls' # calls /\ sink' = sink) => exc' = "SinkError"
       /\ exc = "SinkError" =>
            /\ sink' = sink /\ calls' = calls /\ exc' = exc
            /\ Len(stack') < Len(stack)
       /\ (exc' = "SinkError" /\ stack' = <<>>) => pc' = "raised"
       /\ (exc' = "SinkError" /\ stack' # <<>>) => pc' = "running"]_vars

\* The write of the second record of a four-node tree failed and the
\* caller has the failure: two calls, one record.
C7_Witness ==
    /\ pc = "raised" /\ exc = "SinkError"
    /\ tree.n = 4
    /\ Len(calls) = 2 /\ Len(sink) = 1

\* C8: the data_type field of a record is non-empty, the value of the
\* node's data type, when the node's type is attribute, sensor or actuator,
\* and is empty when it is branch, rbranch or element, whatever data_type
\* the node carries.
C8_DataTypeByNodeType ==
    \A k \in 1..Len(sink) :
        LET nd == NodeOfRecord(k)
        IN  /\ nd.type.value \in {"attribute", "sensor", "actuator"} =>
                 /\ sink[k].data_type # ""
                 /\ nd.data_type.kind = "const"
                 /\ sink[k].data_type = nd.data_type.c.value
            /\ nd.type.value \in {"branch", "rbranch", "element"} =>
                 sink[k].data_type = ""

\* A record of an element node that carries a data type.
C8_Witness ==
    \E k \in 1..Len(sink) :
        /\ NodeOfRecord(k).type.value = "element"
        /\ NodeOfRecord(k).data_type.kind = "const"
        /\ sink[k].data_type = ""

\* The bytes expected for each value drawn for min, max and default_value.
ExpectedField(v) ==
    CASE v = StrVal(<<>>) -> <<>>
      [] v = IntVal(0) -> <<48>>
      [] v = IntVal(12) -> <<49, 50>>
      [] v = IntVal(0 - 5) -> <<45, 53>>
      [] v = StrVal(<<49, 46, 53>>) -> <<49, 46, 53>>
      [] v = StrVal(<<233>>) -> <<195, 169>>

\* C9: each of the record fields min, max and default is empty when the
\* node's min, max, default_value is empty or unset and is otherwise the
\* string form of the node's value; validate is always empty.
C9_OptionalValueFields ==
    \A k \in 1..Len(sink) :
        LET nd == NodeOfRecord(k)
        IN  /\ sink[k].min = ExpectedField(nd.min)
            /\ sink[k].max = ExpectedField(nd.max)
            /\ sink[k].default = ExpectedField(nd.default_value)
            /\ (nd.min = StrVal(<<>>)) <=> (sink[k].min = <<>>)
            /\ (nd.max = StrVal(<<>>)) <=> (sink[k].max = <<>>)
            /\ (nd.default_value = StrVal(<<>>)) <=> (sink[k].default = <<>>)
            /\ sink[k].validate = <<>>

\* A record of a node with min 0, max unset and default -5.
C9_Witness ==
    \E k \in 1..Len(sink) :
        /\ NodeOfRecord(k).min = IntVal(0) /\ sink[k].min = <<48>>
        /\ NodeOfRecord(k).max = StrVal(<<>>) /\ sink[k].max = <<>>
        /\ NodeOfRecord(k).default_value = IntVal(0 - 5)
        /\ sink[k].default = <<45, 53>>

\* C10: after any sequence of add_config calls, those that fail part-way
\* for a missing label included, values() lists exactly the tokens for
\* which from_str succeeds, each once.
C10_ValuesMatchLookup ==
    rpc = "loaded" =>
        /\ Range(values) = {t \in Tokens : ~from_str_raises(t)}
        /\ \A t \in Range(values) : Occurrences(values, t) = 1

====
